---- MODULE Spec2Model ----
(***************************************************************************)
(* repo2file.py: the glob-style path matcher (path_matches_pattern), the   *)
(* ignore/whitelist policy (should_include_path) and the two-pass tree     *)
(* walk (count_files, process_repository).                                 *)
(*                                                                         *)
(* A Python str is modelled as a sequence of one-character strings, so     *)
(* that split, join, basename, startswith/endswith and fnmatch are         *)
(* computed character by character as the library computes them.  The host *)
(* is POSIX: os.sep is "/" and fnmatch's normcase leaves case alone.       *)
(***************************************************************************)
EXTENDS Integers, Sequences, FiniteSets, TLC

(***************************************************************************)
(* Bounds of the model.                                                    *)
(***************************************************************************)
MaxPathSegs == 3
MaxPatSegs == 3
MaxListLen == 2
SmallPathSegs == 2
MachPathSegs == 2
MachPatSegs == 3

(***************************************************************************)
(* String helpers (str methods and os.path functions used by the source).  *)
(***************************************************************************)
OsSep == "/"

\* str.replace(os.sep, "/")
ReplaceSep(s) == [k \in 1..Len(s) |-> IF s[k] = OsSep THEN "/" ELSE s[k]]

\* positions of the "/" characters of s
SlashPos(s) == {k \in 1..Len(s) : s[k] = "/"}

SetMax(S) == CHOOSE m \in S : \A n \in S : n <= m

\* "/" in s
HasSlash(s) == SlashPos(s) # {}

\* s.startswith("*")
StartsWithStar(s) == Len(s) >= 1 /\ s[1] = "*"

\* s.endswith("/")
EndsWithSlash(s) == Len(s) >= 1 /\ s[Len(s)] = "/"

\* os.path.basename(s): what follows the last "/"
Basename(s) ==
    IF SlashPos(s) = {} THEN s ELSE SubSeq(s, SetMax(SlashPos(s)) + 1, Len(s))

\* the k-th "/" of s, counted from 1
NthSlash(s, k) ==
    CHOOSE p \in SlashPos(s) : Cardinality({q \in SlashPos(s) : q < p}) = k - 1

\* s.split("/"): one part more than there are slashes, empty parts kept
SplitKeep(s) ==
    LET n == Cardinality(SlashPos(s))
        lo(k) == IF k = 1 THEN 1 ELSE NthSlash(s, k - 1) + 1
        hi(k) == IF k = n + 1 THEN Len(s) ELSE NthSlash(s, k) - 1
    IN  [k \in 1..(n + 1) |-> SubSeq(s, lo(k), hi(k))]

SplitDropEmpty(s) == SelectSeq(SplitKeep(s), LAMBDA part : part # <<>>)
Split(s) == SplitKeep(s)

\* "/".join(parts)
RECURSIVE Join(_)
Join(parts) ==
    IF parts = <<>> THEN <<>>
    ELSE IF Len(parts) = 1 THEN parts[1]
    ELSE parts[1] \o <<"/">> \o Join(Tail(parts))

(***************************************************************************)
(* fnmatch.fnmatch(name, pat) on a POSIX host: "*" is any run of           *)
(* characters, "?" is one character, anything else is itself.  A "[" with  *)
(* no closing bracket is a literal too, and the alphabets below hold no    *)
(* closing bracket.                                                        *)
(***************************************************************************)
RECURSIVE Fnmatch(_, _)
Fnmatch(name, pat) ==
    IF pat = <<>> THEN name = <<>>
    ELSE IF Head(pat) = "*"
        THEN \E k \in 0..Len(name) :
                Fnmatch(SubSeq(name, k + 1, Len(name)), Tail(pat))
    ELSE IF Head(pat) = "?"
        THEN name # <<>> /\ Fnmatch(Tail(name), Tail(pat))
    ELSE name # <<>> /\ Head(name) = Head(pat)
            /\ Fnmatch(Tail(name), Tail(pat))

(***************************************************************************)
(* path_matches_pattern                                                    *)
(***************************************************************************)
StarStar == <<"*", "*">>

\* line 21: the extension-pattern test
IsExtensionPatternNever(pattern) == FALSE
IsExtensionPattern(pattern) == StartsWithStar(pattern) /\ ~HasSlash(pattern)

\* lines 25-26: a pattern ending with "/" gets "**" appended
DirPatternOneStar(pattern) ==
    IF EndsWithSlash(pattern) THEN pattern \o <<"*">> ELSE pattern
DirPattern(pattern) ==
    IF EndsWithSlash(pattern) THEN pattern \o StarStar ELSE pattern

\* line 39: range(i, len(path_parts)), as 1-based indices
SplitPointsSkipOne(i, n) == (i + 1)..n
SplitPoints(i, n) == i..n

\* line 41: the pattern of the recursive call
RestPattern(pattern_parts, i) ==
    Join(SubSeq(pattern_parts, i + 1, Len(pattern_parts)))

\* line 41: the path of the recursive call
RestPath(path_parts, j) == Join(SubSeq(path_parts, j, Len(path_parts)))

\* line 45: i >= len(path_parts), as a 1-based index
PastEndNever(i, path_parts) == FALSE
PastEnd(i, path_parts) == i > Len(path_parts)

RECURSIVE PathMatchesPattern(_, _)
RECURSIVE MatchParts(_, _, _)

\* lines 33-52: the loop over pattern_parts from its i-th part on; the
\* loop's position in pattern_parts and the counter i advance together
MatchParts(path_parts, pattern_parts, i) ==
    IF i > Len(pattern_parts) THEN i - 1 = Len(path_parts)
    ELSE IF pattern_parts[i] = StarStar
        THEN IF i = Len(pattern_parts) THEN TRUE
             ELSE \E j \in SplitPoints(i, Len(path_parts)) :
                     PathMatchesPattern(RestPath(path_parts, j),
                                        RestPattern(pattern_parts, i))
    ELSE IF PastEnd(i, path_parts) THEN FALSE
    ELSE IF ~Fnmatch(path_parts[i], pattern_parts[i]) THEN FALSE
    ELSE MatchParts(path_parts, pattern_parts, i + 1)

PathMatchesPattern(path0, pattern0) ==
    LET path == ReplaceSep(path0)
        pattern == ReplaceSep(pattern0)
    IN  IF IsExtensionPattern(pattern)
            THEN Fnmatch(Basename(path), pattern)
        ELSE MatchParts(Split(path), Split(DirPattern(pattern)), 1)

(***************************************************************************)
(* should_include_path                                                     *)
(***************************************************************************)
ShouldIncludePathWhitelistFirst(path0, ignore, whitelist) ==
    LET path == ReplaceSep(path0)
    IN  IF whitelist # <<>>
               /\ \E k \in 1..Len(whitelist) :
                      PathMatchesPattern(path, whitelist[k])
            THEN TRUE
        ELSE IF \E k \in 1..Len(ignore) : PathMatchesPattern(path, ignore[k])
            THEN FALSE
        ELSE whitelist = <<>>

ShouldIncludePath(path0, ignore, whitelist) ==
    LET path == ReplaceSep(path0)
    IN  IF \E k \in 1..Len(ignore) : PathMatchesPattern(path, ignore[k])
            THEN FALSE
        ELSE IF whitelist # <<>>
            THEN \E k \in 1..Len(whitelist) :
                    PathMatchesPattern(path, whitelist[k])
        ELSE TRUE

(***************************************************************************)
(* Inputs: strings built by joining up to n segments with "/".  An empty   *)
(* segment gives a leading, trailing or doubled slash.                     *)
(***************************************************************************)
Joins(segs, n) ==
    {Join(parts) : parts \in UNION {[1..k -> segs] : k \in 1..n}}

PathSegs == {<<>>, <<"a">>, <<"c">>, <<"a", ".", "c">>}
PatSegs == {<<>>, <<"a">>, <<"c">>, StarStar, <<"*", ".", "c">>}
Exts == {<<>>, <<"c">>, <<"C">>, <<"a", ".", "c">>}

Paths == Joins(PathSegs, MaxPathSegs)
SmallPaths == Joins(PathSegs, SmallPathSegs)
ExtPatterns == {<<"*", ".">> \o e : e \in Exts}
Patterns == Joins(PatSegs, MaxPatSegs) \cup ExtPatterns \cup {<<"?">>}
PolicyPatterns == {<<"a", "/">>, <<"*", ".", "c">>, <<"c">>}
PatternLists == UNION {[1..k -> PolicyPatterns] : k \in 0..MaxListLen}

(***************************************************************************)
(* State.                                                                  *)
(*   fn, path, pattern, ignore_patterns, whitelist_patterns: the function  *)
(*     called and its arguments; pc, result: whether it has returned, and  *)
(*     its return value.                                                   *)
(*   stack, error: the frames of path_matches_pattern's invocations when   *)
(*     it is run step by step, and whether a step raised an exception.     *)
(*   repo_path, fs: process_repository's root and the files beneath it.    *)
(*   phase: "count" (in count_files), "write" (in the second walk),        *)
(*     "done", or "aborted" (an exception left the file loop).             *)
(*   walk_stack, files_left: the directories os.walk has yet to yield and  *)
(*     the files of the current directory not yet handled.                 *)
(*   count, total_files, pbar: count_files' counter, its result, and the   *)
(*     progress bar's counter.                                             *)
(*   output: the write calls made on the output file, in order.            *)
(*   created: opening the output file added a file to the repository.      *)
(*   visited, opened, counted, processed: the directories each walk        *)
(*     yielded, the files opened for reading, and the files each pass      *)
(*     selected, in order.                                                 *)
(***************************************************************************)
VARIABLES fn, path, pattern, ignore_patterns, whitelist_patterns, pc, result,
          stack, error,
          repo_path, fs, phase, walk_stack, files_left, count,
          total_files, pbar, output, created, visited, opened, counted,
          processed

callVars ==
    <<fn, path, pattern, ignore_patterns, whitelist_patterns, pc, result>>
machVars == <<stack, error>>
walkVars ==
    <<repo_path, fs, phase, walk_stack, files_left, count,
      total_files, pbar, output, created, visited, opened, counted,
      processed>>
vars == <<callVars, machVars, walkVars>>

\* no walk is running
WalkIdle ==
    /\ repo_path = <<>>
    /\ fs = <<>>
    /\ phase = "idle"
    /\ walk_stack = <<>>
    /\ files_left = <<>>
    /\ count = 0
    /\ total_files = 0
    /\ pbar = 0
    /\ output = <<>>
    /\ created = FALSE
    /\ visited = {}
    /\ opened = {}
    /\ counted = <<>>
    /\ processed = <<>>

(***************************************************************************)
(* Spec: one call of path_matches_pattern or of should_include_path on     *)
(* arguments drawn from the bounded sets.                                  *)
(***************************************************************************)
Init ==
    /\ pc = "call"
    /\ result = FALSE
    /\ stack = <<>>
    /\ error = FALSE
    /\ WalkIdle
    /\ \/ /\ fn = "path_matches_pattern"
          /\ path \in Paths
          /\ pattern \in Patterns
          /\ ignore_patterns = <<>>
          /\ whitelist_patterns = <<>>
       \/ /\ fn = "should_include_path"
          /\ path \in SmallPaths
          /\ pattern = <<>>
          /\ ignore_patterns \in PatternLists
          /\ whitelist_patterns \in PatternLists

CallPathMatchesPattern ==
    /\ fn = "path_matches_pattern"
    /\ pc = "call"
    /\ pc' = "return"
    /\ result' = PathMatchesPattern(path, pattern)
    /\ UNCHANGED <<fn, path, pattern, ignore_patterns, whitelist_patterns>>
    /\ UNCHANGED <<machVars, walkVars>>

CallShouldIncludePath ==
    /\ fn = "should_include_path"
    /\ pc = "call"
    /\ pc' = "return"
    /\ result' = ShouldIncludePath(path, ignore_patterns, whitelist_patterns)
    /\ UNCHANGED <<fn, path, pattern, ignore_patterns, whitelist_patterns>>
    /\ UNCHANGED <<machVars, walkVars>>

Next == CallPathMatchesPattern \/ CallShouldIncludePath

Spec == Init /\ [][Next]_vars

(***************************************************************************)
(* SpecMachine: path_matches_pattern run step by step on an explicit call  *)
(* stack, one frame per invocation.  A frame is at "enter" (line 17),      *)
(* "loop" (line 34), "try" (line 39, about to test split point j), "wait"  *)
(* (inside the call of line 40) or "return".                               *)
(***************************************************************************)
MachPathSegSet == {<<>>, <<"a">>, <<"c">>}
MachPatSegSet == {<<"a">>, StarStar, <<"*", ".", "c">>}
MachPaths == Joins(MachPathSegSet, MachPathSegs)
MachPatterns ==
    Joins(MachPatSegSet, MachPatSegs) \cup {<<>>, <<"/">>, <<"a", "/">>}

NewFrame(p, q) ==
    [path |-> p, pattern |-> q, path_parts |-> <<>>, pattern_parts |-> <<>>,
     i |-> 1, j |-> 1, at |-> "enter", ret |-> FALSE]

Top == stack[Len(stack)]
SetTop(f) == [stack EXCEPT ![Len(stack)] = f]
Returning(f, v) == [f EXCEPT !.at = "return", !.ret = v]

MachInit ==
    /\ fn = "path_matches_pattern"
    /\ path \in MachPaths
    /\ pattern \in MachPatterns
    /\ ignore_patterns = <<>>
    /\ whitelist_patterns = <<>>
    /\ pc = "call"
    /\ result = FALSE
    /\ stack = <<>>
    /\ error = FALSE
    /\ WalkIdle

\* the caller invokes path_matches_pattern(path, pattern)
MCall ==
    /\ pc = "call"
    /\ pc' = "running"
    /\ stack' = <<NewFrame(path, pattern)>>
    /\ UNCHANGED <<fn, path, pattern, ignore_patterns, whitelist_patterns,
                   result, error>>
    /\ UNCHANGED walkVars

\* lines 17-30: normalise, the extension rule, the directory rule, the splits
MEnter ==
    /\ stack # <<>>
    /\ Top.at = "enter"
    /\ LET p == ReplaceSep(Top.path)
           q == ReplaceSep(Top.pattern)
       IN  IF IsExtensionPattern(q)
               THEN stack' = SetTop(Returning(Top, Fnmatch(Basename(p), q)))
           ELSE stack' = SetTop([Top EXCEPT
                                    !.path_parts = Split(p),
                                    !.pattern_parts = Split(DirPattern(q)),
                                    !.i = 1,
                                    !.at = "loop"])
    /\ UNCHANGED <<callVars, error, walkVars>>

\* lines 34-38 and 45-52: one iteration of the loop over pattern_parts, or
\* the return after its last iteration; indexing path_parts past its end
\* raises IndexError
MLoop ==
    /\ stack # <<>>
    /\ Top.at = "loop"
    /\ LET pp == Top.path_parts
           qp == Top.pattern_parts
           i == Top.i
       IN  IF i > Len(qp)
               THEN /\ stack' = SetTop(Returning(Top, i - 1 = Len(pp)))
                    /\ UNCHANGED <<pc, error>>
           ELSE IF qp[i] = StarStar
               THEN /\ stack' =
                          IF i = Len(qp) THEN SetTop(Returning(Top, TRUE))
                          ELSE SetTop([Top EXCEPT !.at = "try", !.j = i])
                    /\ UNCHANGED <<pc, error>>
           ELSE IF PastEnd(i, pp)
               THEN /\ stack' = SetTop(Returning(Top, FALSE))
                    /\ UNCHANGED <<pc, error>>
           ELSE IF i > Len(pp)
               THEN /\ stack' = <<>>
                    /\ error' = TRUE
                    /\ pc' = "raised"
           ELSE IF ~Fnmatch(pp[i], qp[i])
               THEN /\ stack' = SetTop(Returning(Top, FALSE))
                    /\ UNCHANGED <<pc, error>>
           ELSE /\ stack' = SetTop([Top EXCEPT !.i = i + 1])
                /\ UNCHANGED <<pc, error>>
    /\ UNCHANGED <<fn, path, pattern, ignore_patterns, whitelist_patterns,
                   result>>
    /\ UNCHANGED walkVars

\* lines 39-41: the next split point j exists: call on the joined suffixes
MRecurse ==
    /\ stack # <<>>
    /\ Top.at = "try"
    /\ Top.j <= Len(Top.path_parts)
    /\ stack' = Append(SetTop([Top EXCEPT !.at = "wait"]),
                       NewFrame(RestPath(Top.path_parts, Top.j),
                                RestPattern(Top.pattern_parts, Top.i)))
    /\ UNCHANGED <<callVars, error, walkVars>>

\* line 44: no split point is left
MExhausted ==
    /\ stack # <<>>
    /\ Top.at = "try"
    /\ Top.j > Len(Top.path_parts)
    /\ stack' = SetTop(Returning(Top, FALSE))
    /\ UNCHANGED <<callVars, error, walkVars>>

\* a return: to the caller of the outermost call, or to line 40 of the
\* calling frame, which returns True (line 43) or moves to the next j
MReturn ==
    /\ stack # <<>>
    /\ Top.at = "return"
    /\ IF Len(stack) = 1
           THEN /\ stack' = <<>>
                /\ result' = Top.ret
                /\ pc' = "return"
       ELSE LET caller == stack[Len(stack) - 1]
            IN  /\ stack' = Append(SubSeq(stack, 1, Len(stack) - 2),
                                   IF Top.ret THEN Returning(caller, TRUE)
                                   ELSE [caller EXCEPT !.at = "try",
                                                       !.j = @ + 1])
                /\ UNCHANGED <<pc, result>>
    /\ UNCHANGED <<fn, path, pattern, ignore_patterns, whitelist_patterns,
                   error>>
    /\ UNCHANGED walkVars

MachNext == MCall \/ MEnter \/ MLoop \/ MRecurse \/ MExhausted \/ MReturn

\* sequential code: an enabled step is taken
SpecMachine == MachInit /\ [][MachNext]_vars /\ WF_vars(MachNext)

(***************************************************************************)
(* SpecWalk: process_repository on a directory tree.  A file or directory  *)
(* of the tree is named by its node, the sequence of names leading to it   *)
(* from the repository root; fs gives each file's read outcome: "ok", or   *)
(* the exception that open/read raises.  The working directory is /w.      *)
(***************************************************************************)
MaxFailures == 2
MarkerLen == 20

NodeModules == <<"n", "o", "d", "e", "_", "m", "o", "d", "u", "l", "e", "s">>
Anything == <<"a", "n", "y", "t", "h", "i", "n", "g">>
DeepJs == <<"d", "e", "e", "p", ".", "j", "s">>
SrcDir == <<"s", "r", "c">>
ATxt == <<"a", ".", "t", "x", "t">>
DocsDir == <<"d", "o", "c", "s">>
ReadmeMd == <<"r", "e", "a", "d", "m", "e", ".", "m", "d">>
RepoContentsTxt ==
    <<"r", "e", "p", "o", "_", "c", "o", "n", "t", "e", "n", "t", "s",
      ".", "t", "x", "t">>

\* the files a tree may hold, and the order in which a directory lists names
FileUniverse ==
    {<<RepoContentsTxt>>, <<NodeModules, Anything, DeepJs>>,
     <<SrcDir, ATxt>>, <<DocsDir, ReadmeMd>>}
NameOrder ==
    <<RepoContentsTxt, ATxt, DeepJs, ReadmeMd,
      SrcDir, NodeModules, Anything, DocsDir>>

Cwd == <<"/", "w">>
RepoPaths == {<<".">>, <<"r", "e", "p", "o">>}
\* line 148: the default --output_file, relative to the working directory
OutputFile == RepoContentsTxt

WalkIgnores == {<<>>, <<NodeModules \o <<"/">>>>, <<<<"*", ".", "m", "d">>>>}
WalkWhitelists ==
    {<<>>, <<SrcDir \o <<"/", "*", "*">>>>, <<<<"*", ".", "t", "x", "t">>>>}

ReadErrors == {"PermissionError", "UnicodeDecodeError"}

StartsWithSlash(s) == Len(s) >= 1 /\ s[1] = "/"

\* os.path.join(a, b)
OsPathJoin(a, b) ==
    IF StartsWithSlash(b) THEN b
    ELSE IF a = <<>> \/ EndsWithSlash(a) THEN a \o b
    ELSE a \o <<"/">> \o b

\* os.path.normpath's pass over the components of an absolute path
RECURSIVE NormFold(_, _)
NormFold(parts, acc) ==
    IF parts = <<>> THEN acc
    ELSE IF Head(parts) \in {<<>>, <<".">>} THEN NormFold(Tail(parts), acc)
    ELSE IF Head(parts) = <<".", ".">>
        THEN NormFold(Tail(parts),
                      IF acc = <<>> THEN acc ELSE SubSeq(acc, 1, Len(acc) - 1))
    ELSE NormFold(Tail(parts), Append(acc, Head(parts)))

\* the components of os.path.abspath(p)
AbsParts(p) ==
    NormFold(Split(IF StartsWithSlash(p) THEN p ELSE OsPathJoin(Cwd, p)), <<>>)

CommonLen(a, b) ==
    SetMax({k \in 0..Len(a) : k <= Len(b) /\ SubSeq(a, 1, k) = SubSeq(b, 1, k)})

\* the components of os.path.relpath(p, start)
RelParts(p, start) ==
    LET sl == AbsParts(start)
        pl == AbsParts(p)
        n == CommonLen(sl, pl)
    IN  [k \in 1..(Len(sl) - n) |-> <<".", ".">>] \o SubSeq(pl, n + 1, Len(pl))

\* os.path.relpath(p, start)
RelPath(p, start) ==
    IF RelParts(p, start) = <<>> THEN <<".">> ELSE Join(RelParts(p, start))

\* the listing of directory node d: os.walk's dirs and files
DirsOf(files, d) ==
    SelectSeq(NameOrder,
              LAMBDA n : \E f \in files :
                            /\ Len(f) > Len(d) + 1
                            /\ SubSeq(f, 1, Len(d) + 1) = Append(d, n))
FilesOf(files, d) == SelectSeq(NameOrder, LAMBDA n : Append(d, n) \in files)

\* lines 75-81 and 96-102: dirs[:] = the subdirectories that pass the policy,
\* each tested as os.path.join(root, d)
PruneDirs(root, dirs, ignore, whitelist) ==
    SelectSeq(dirs,
              LAMBDA d : ShouldIncludePath(OsPathJoin(root, d), ignore, whitelist))

\* os.walk descends into what is left in dirs, in order, depth first
Children(top, dirs) ==
    [k \in 1..Len(dirs) |->
        [root |-> OsPathJoin(top.root, dirs[k]), node |-> Append(top.node, dirs[k])]]

\* lines 83 and 105: file_path
FilePath(root, file) == RelPath(OsPathJoin(root, file), repo_path)

\* the files of one directory, as the file loops see them
FileEntries(top, files) ==
    [k \in 1..Len(files) |->
        [path |-> FilePath(top.root, files[k]), node |-> Append(top.node, files[k])]]

Included(entries) ==
    SelectSeq(entries,
              LAMBDA e : ShouldIncludePath(e.path, ignore_patterns,
                                           whitelist_patterns))

\* the node of the output file if it lies inside the repository, else <<>>
OutputNode ==
    LET rel == RelParts(OutputFile, repo_path)
    IN  IF rel # <<>> /\ rel[1] = <<".", ".">> THEN <<>> ELSE rel

Marker == [k \in 1..MarkerLen |-> "="]

\* lines 115-118: the four writes of one file's block
Block(file_path, node) ==
    << [kind |-> "path", text |-> file_path \o <<"\n">>],
       [kind |-> "marker", text |-> Marker \o <<"\n">>],
       [kind |-> "content", text |-> Join(node)],
       [kind |-> "end", text |-> <<"\n">> \o Marker \o <<"\n", "\n">>] >>

\* lines 111-118: the try body; open/read raise before anything is written
TryBodyHeaderFirst(out, file_path, node, outcome) ==
    IF outcome = "ok" THEN out \o Block(file_path, node)
    ELSE out \o SubSeq(Block(file_path, node), 1, 2)
TryBody(out, file_path, node, outcome) ==
    IF outcome = "ok" THEN out \o Block(file_path, node) ELSE out

\* line 119: except Exception catches what open and read raise
Caught(exc) == exc \in ReadErrors

\* lines 121-122: finally: pbar.update(1)
PbarOnSuccessOnly(n, outcome) == IF outcome = "ok" THEN n + 1 ELSE n
PbarUpdate(n, outcome) == n + 1

Failing(f) == Cardinality({n \in DOMAIN f : f[n] # "ok"})

WalkInit ==
    /\ fn = "process_repository"
    /\ path = <<>>
    /\ pattern = <<>>
    /\ pc = "call"
    /\ result = FALSE
    /\ stack = <<>>
    /\ error = FALSE
    /\ repo_path \in RepoPaths
    /\ ignore_patterns \in WalkIgnores
    /\ whitelist_patterns \in WalkWhitelists
    /\ \E present \in SUBSET FileUniverse :
          /\ fs \in [present -> {"ok"} \cup ReadErrors]
          /\ Failing(fs) <= MaxFailures
    /\ phase = "count"
    /\ walk_stack = <<[root |-> repo_path, node |-> <<>>]>>
    /\ files_left = <<>>
    /\ count = 0
    /\ total_files = 0
    /\ pbar = 0
    /\ output = <<>>
    /\ created = FALSE
    /\ visited = {}
    /\ opened = {}
    /\ counted = <<>>
    /\ processed = <<>>

\* count_files, lines 74-85: one directory yielded by os.walk
CountDir ==
    /\ phase = "count"
    /\ walk_stack # <<>>
    /\ LET top == Head(walk_stack)
           dirs == PruneDirs(top.root, DirsOf(DOMAIN fs, top.node),
                             ignore_patterns, whitelist_patterns)
           sel == Included(FileEntries(top, FilesOf(DOMAIN fs, top.node)))
       IN  /\ walk_stack' = Children(top, dirs) \o Tail(walk_stack)
           /\ count' = count + Len(sel)
           /\ counted' = counted \o sel
           /\ visited' = visited \cup {<<"count", top.node>>}
    /\ UNCHANGED <<repo_path, fs, phase, files_left, total_files, pbar,
                   output, created, opened, processed>>
    /\ UNCHANGED <<callVars, machVars>>

\* lines 86 and 90-94: count_files returns, the output file is opened for
\* writing (created, or emptied) and the second walk starts
CountReturn ==
    /\ phase = "count"
    /\ walk_stack = <<>>
    /\ total_files' = count
    /\ fs' = IF OutputNode = <<>> THEN fs
             ELSE [n \in DOMAIN fs \cup {OutputNode} |->
                      IF n = OutputNode THEN "ok" ELSE fs[n]]
    /\ created' = (OutputNode # <<>> /\ OutputNode \notin DOMAIN fs)
    /\ output' = <<>>
    /\ pbar' = 0
    /\ phase' = "write"
    /\ walk_stack' = <<[root |-> repo_path, node |-> <<>>]>>
    /\ UNCHANGED <<repo_path, files_left, count, visited, opened, counted,
                   processed>>
    /\ UNCHANGED <<callVars, machVars>>

\* lines 94-102: os.walk yields the next directory and its dirs are pruned
WriteDir ==
    /\ phase = "write"
    /\ files_left = <<>>
    /\ walk_stack # <<>>
    /\ LET top == Head(walk_stack)
           dirs == PruneDirs(top.root, DirsOf(DOMAIN fs, top.node),
                             ignore_patterns, whitelist_patterns)
       IN  /\ walk_stack' = Children(top, dirs) \o Tail(walk_stack)
           /\ files_left' = FileEntries(top, FilesOf(DOMAIN fs, top.node))
           /\ visited' = visited \cup {<<"write", top.node>>}
    /\ UNCHANGED <<repo_path, fs, phase, count, total_files, pbar, output,
                   created, opened, counted, processed>>
    /\ UNCHANGED <<callVars, machVars>>

\* lines 104-122: one file of the current directory
WriteFile ==
    /\ phase = "write"
    /\ files_left # <<>>
    /\ LET e == Head(files_left)
           outcome == fs[e.node]
       IN  IF ShouldIncludePath(e.path, ignore_patterns, whitelist_patterns)
               THEN /\ processed' = Append(processed, e)
                    /\ opened' = opened \cup {e.node}
                    /\ output' = TryBody(output, e.path, e.node, outcome)
                    /\ pbar' = PbarUpdate(pbar, outcome)
                    /\ phase' = IF outcome = "ok" \/ Caught(outcome)
                                    THEN "write" ELSE "aborted"
           ELSE UNCHANGED <<processed, opened, output, pbar, phase>>
    /\ files_left' = Tail(files_left)
    /\ UNCHANGED <<repo_path, fs, walk_stack, count, total_files, created,
                   visited, counted>>
    /\ UNCHANGED <<callVars, machVars>>

\* the walk is over: the with blocks close and process_repository returns
WriteReturn ==
    /\ phase = "write"
    /\ files_left = <<>>
    /\ walk_stack = <<>>
    /\ phase' = "done"
    /\ UNCHANGED <<repo_path, fs, walk_stack, files_left, count, total_files,
                   pbar, output, created, visited, opened, counted, processed>>
    /\ UNCHANGED <<callVars, machVars>>

WalkNext == CountDir \/ CountReturn \/ WriteDir \/ WriteFile \/ WriteReturn

SpecWalk == WalkInit /\ [][WalkNext]_vars

(***************************************************************************)
(* Properties of the matcher and of the inclusion policy, under Spec.      *)
(***************************************************************************)
IsPrefix(s, t) == Len(s) <= Len(t) /\ SubSeq(t, 1, Len(s)) = s
IsSuffix(s, t) == Len(s) <= Len(t) /\ SubSeq(t, Len(t) - Len(s) + 1, Len(t)) = s
Chars(s) == {s[k] : k \in 1..Len(s)}
NoWildcard(s) == Chars(s) \cap {"*", "?", "["} = {}
Matched == fn = "path_matches_pattern" /\ pc = "return"
Decided == fn = "should_include_path" /\ pc = "return"
MatchesSome(p, list) == \E k \in 1..Len(list) : PathMatchesPattern(p, list[k])

\* C1: should_include_path(p, I, W) is true exactly when no pattern of I
\* matches p and W is empty or some pattern of W matches p.
C1_InclusionPolicy ==
    Decided =>
        (result <=> /\ ~MatchesSome(path, ignore_patterns)
                    /\ \/ whitelist_patterns = <<>>
                       \/ MatchesSome(path, whitelist_patterns))

\* a path matching both an ignore pattern and a whitelist pattern was excluded
C1_Witness ==
    /\ Decided
    /\ MatchesSome(path, ignore_patterns)
    /\ MatchesSome(path, whitelist_patterns)
    /\ result = FALSE

\* a pattern of wildcard-free text ending with "/": it names one directory
IsLiteralDirPattern(q) == EndsWithSlash(q) /\ NoWildcard(q)
DirNamedBy(q) == SubSeq(q, 1, Len(q) - 1)

PatternACStar == <<"a", "/", "*", "*", "/", "c">>

\* C5: a path matches "a/**/c" exactly when it starts with the segment a,
\* ends with the segment c and has at least two segments.
C5_InteriorStarStar ==
    (Matched /\ pattern = PatternACStar) =>
        (result <=> /\ IsPrefix(<<"a", "/">>, path)
                    /\ IsSuffix(<<"/", "c">>, path))

\* "a/**/c" matched "a/c": the "**" stood for zero segments
C5_Witness ==
    /\ Matched
    /\ pattern = PatternACStar
    /\ path = <<"a", "/", "c">>
    /\ result = TRUE

\* the final segment of p ends with the text ext
FinalSegmentEndsWith(p, ext) ==
    \E k \in 0..Len(p) :
        /\ k = 0 \/ p[k] = "/"
        /\ "/" \notin Chars(SubSeq(p, k + 1, Len(p)))
        /\ IsSuffix(ext, SubSeq(p, k + 1, Len(p)))

\* C6: a path matches an extension pattern "*.ext" exactly when its final
\* segment ends with ".ext", case-sensitively and at any depth.
C6_ExtensionPattern ==
    (Matched /\ pattern \in ExtPatterns) =>
        (result <=> FinalSegmentEndsWith(path, Tail(pattern)))

\* "*.c" matched a file two directories down
C6_Witness ==
    /\ Matched
    /\ pattern = <<"*", ".", "c">>
    /\ path = <<"a", "/", "c", "/", "a", ".", "c">>
    /\ result = TRUE

\* a pattern of the general kind: neither an extension pattern nor a
\* directory pattern
IsSegmentedPattern(q) == ~IsExtensionPattern(q) /\ ~EndsWithSlash(q)

\* C9 as stated: for a segmented pattern, a path matches as the same path
\* with a trailing "/" appended or a leading "/" prepended does (stated here
\* for non-empty paths only).
C9_SlashesIgnored ==
    (Matched /\ IsSegmentedPattern(pattern) /\ path # <<>>) =>
        /\ result = PathMatchesPattern(path \o <<"/">>, pattern)
        /\ result = PathMatchesPattern(<<"/">> \o path, pattern)

\* a pattern of non-empty wildcard-free segments
IsLiteralPattern(q) == NoWildcard(q) /\ \A k \in 1..Len(Split(q)) : Split(q)[k] # <<>>

\* C9 amended: a leading or trailing slash adds an empty segment, so for a
\* pattern of non-empty wildcard-free segments a path that matches no longer
\* matches once a "/" is appended or prepended.
C9_SlashesKept ==
    (Matched /\ IsLiteralPattern(pattern) /\ result) =>
        /\ ~PathMatchesPattern(path \o <<"/">>, pattern)
        /\ ~PathMatchesPattern(<<"/">> \o path, pattern)
        /\ Len(Split(ReplaceSep(path \o <<"/">>))) = Len(Split(ReplaceSep(path))) + 1

\* "a/c" matched the pattern "a/c"
C9_Witness ==
    /\ Matched
    /\ pattern = <<"a", "/", "c">>
    /\ path = <<"a", "/", "c">>
    /\ result = TRUE

(***************************************************************************)
(* Properties of the step-by-step matcher, under SpecMachine.              *)
(***************************************************************************)
\* every recursive invocation got a pattern of fewer segments than its caller
FewerSegments ==
    \A k \in 2..Len(stack) :
        Len(Split(ReplaceSep(stack[k].pattern))) < Len(stack[k - 1].pattern_parts)

\* the step-by-step run returns what the recursive definition gives
MachineAgrees == pc = "return" => result = PathMatchesPattern(path, pattern)

\* C10: path_matches_pattern is total: no step raises an error, every
\* recursive invocation is on a pattern of strictly fewer segments, and the
\* call returns (a boolean).
C10_Total ==
    /\ [](~error /\ FewerSegments)
    /\ <>(pc = "return" /\ result \in BOOLEAN)

\* a second-level recursive invocation (two "**" segments) is returning True
C10_Witness ==
    /\ Len(stack) = 3
    /\ Top.at = "return"
    /\ Top.ret = TRUE

(***************************************************************************)
(* Properties of the tree walk, under SpecWalk.                            *)
(***************************************************************************)
DeepJsNode == <<NodeModules, Anything, DeepJs>>
SrcATxtNode == <<SrcDir, ATxt>>
DocsReadmeNode == <<DocsDir, ReadmeMd>>
PathsOf(entries) == {entries[k].path : k \in 1..Len(entries)}
OutputPaths == {output[k].text : k \in {j \in 1..Len(output) : output[j].kind = "path"}}
ReadOk(e) == fs[e.node] = "ok"

\* C2: with ignore = ["node_modules/"] and node_modules/anything/deep.js in
\* the tree, neither pass visits node_modules or a directory beneath it, and
\* no file under it is opened or written to the output.
C2_IgnoredSubtreeNeverVisited ==
    (ignore_patterns = <<NodeModules \o <<"/">>>> /\ DeepJsNode \in DOMAIN fs) =>
        /\ \A v \in visited : v[2] = <<>> \/ v[2][1] # NodeModules
        /\ \A n \in opened : n[1] # NodeModules
        /\ \A t \in OutputPaths : ~IsPrefix(NodeModules \o <<"/">>, t)

\* C3: with no ignore patterns and whitelist = ["src/**"], over a root that
\* holds src/a.txt and docs/readme.md, src/a.txt is counted and written and
\* docs/readme.md is not.
C3_PureWhitelist ==
    ( /\ phase = "done"
      /\ ignore_patterns = <<>>
      /\ whitelist_patterns = <<SrcDir \o <<"/", "*", "*">>>>
      /\ {SrcATxtNode, DocsReadmeNode} \subseteq DOMAIN fs ) =>
        /\ Join(SrcATxtNode) \in PathsOf(counted)
        /\ Join(SrcATxtNode) \in PathsOf(processed)
        /\ fs[SrcATxtNode] = "ok" => (Join(SrcATxtNode) \o <<"\n">>) \in OutputPaths
        /\ Join(DocsReadmeNode) \notin PathsOf(processed)
        /\ (Join(DocsReadmeNode) \o <<"\n">>) \notin OutputPaths

RECURSIVE Blocks(_)
Blocks(entries) ==
    IF entries = <<>> THEN <<>>
    ELSE Block(Head(entries).path, Head(entries).node) \o Blocks(Tail(entries))

\* C7: a file whose read fails leaves nothing in the output, the failure
\* does not end the walk, and the files after it are processed: the output
\* is exactly the complete blocks of the selected files that read correctly.
C7_FailedFileWritesNothing ==
    /\ phase # "aborted"
    /\ output = Blocks(SelectSeq(processed, ReadOk))
    /\ (phase = "done" /\ ~created) => processed = counted

\* the walk ended after a file that failed and a later one that was written
C7_Witness ==
    /\ phase = "done"
    /\ \E k \in 1..Len(processed) : \E l \in (k + 1)..Len(processed) :
          /\ ~ReadOk(processed[k])
          /\ ReadOk(processed[l])
          /\ (processed[l].path \o <<"\n">>) \in OutputPaths

\* C8: when the write pass does not find a file the count pass did not see,
\* the total of the count pass is the number of files the write pass
\* selects, and the progress counter, advanced once per selected file
\* whether or not its read failed, ends equal to that total.
C8_CountMatchesWrite ==
    /\ phase \in {"write", "done"} => pbar = Len(processed)
    /\ (phase = "done" /\ ~created) =>
          /\ total_files = Len(processed)
          /\ pbar = total_files

\* a walk of at least two selected files, one of them unreadable, has ended
C8_Witness ==
    /\ phase = "done"
    /\ ~created
    /\ total_files >= 2
    /\ pbar = total_files
    /\ \E k \in 1..Len(processed) : ~ReadOk(processed[k])

====
